---- MODULE Spec2Model ----
(***************************************************************************)
(* Model of scripts/copy_non_investment_docx.py: one invocation of main(), *)
(* started on an arbitrary file system, with the wall clock advancing      *)
(* between the statements of the script.                                   *)
(*                                                                         *)
(* Strings are sequences of tokens, one token per character; a Chinese     *)
(* character is written as its pinyin ("tou" "zi" "jian" "yi" is the       *)
(* marker phrase), and a file extension or a rendered time stamp is one    *)
(* token.  A directory is the sequence of its path components; a file     *)
(* path is a record [dir, name].                                           *)
(***************************************************************************)
EXTENDS Integers, Sequences, FiniteSets, TLC

VARIABLES
    DOCX_AVAILABLE,  \* module constant set by the import at lines 14-20
    project_root,    \* Path(__file__).parent.parent, fixed by where the script is installed
    argv1,           \* sys.argv[1], or NoArg
    files,           \* file system: path -> [by, partial]
    dirs,            \* file system: the existing directories
    date,            \* wall clock: the local day
    tod,             \* wall clock: the second of the day
    pc,              \* position of the control thread
    single_file,     \* parameter of copy_non_investment_docx_files
    target_dir,      \* local of copy_non_investment_docx_files
    docx_files,      \* local: the materialised candidate list
    idx,             \* position of the for loop in docx_files (1-based)
    doc,             \* what Document(docx_file) delivered for the current candidate
    should_copy,     \* local of the loop body
    copied_count,    \* local: the only counter of the function
    stdout,          \* the lines printed so far
    exit_code,       \* process exit status, NoExit while running
    opened,          \* history: candidate indexes handed to Document()
    last,            \* history: what the most recent pass through lines 111-130 did
    created          \* history: the directories line 73 created

vars == <<DOCX_AVAILABLE, project_root, argv1, files, dirs, date, tod, pc,
          single_file, target_dir, docx_files, idx, doc, should_copy,
          copied_count, stdout, exit_code, opened, last, created>>

----------------------------------------------------------------------------
(* Bounds *)

MaxFiles == 2     \* files present under the source directory at start
MaxTicks == 2     \* seconds that pass while the script runs
DayLen == 2       \* seconds per day of the scaled-down wall clock

NoArg == [dir |-> <<>>, name |-> <<>>]
NoExit == 0 - 1
NoDoc == [ok |-> FALSE, paragraphs |-> << <<"-">> >>]
NoDir == <<"-">>
NoLast == [res |-> "none", target |-> NoArg, existed |-> FALSE]

----------------------------------------------------------------------------
(* Strings *)

RECURSIVE LStrip(_)
LStrip(s) == IF s # <<>> /\ Head(s) = " " THEN LStrip(Tail(s)) ELSE s

RECURSIVE RStrip(_)
RStrip(s) == IF s # <<>> /\ s[Len(s)] = " " THEN RStrip(SubSeq(s, 1, Len(s) - 1)) ELSE s

\* str.strip()
strip(s) == RStrip(LStrip(s))

\* str.startswith(prefix)
startswith(s, prefix) ==
    /\ Len(prefix) <= Len(s)
    /\ SubSeq(s, 1, Len(prefix)) = prefix

\* contains, looking at the start of s only
contains_at_start(s, keyword) == startswith(s, keyword)

\* keyword in s
contains(s, keyword) ==
    \E i \in 1..(Len(s) - Len(keyword) + 1) : SubSeq(s, i, i + Len(keyword) - 1) = keyword

LowerTok(c) ==
    CASE c = "A" -> "a"
      [] c = "B" -> "b"
      [] c = ".DOCX" -> ".docx"
      [] OTHER -> c

\* str.lower()
lower(s) == [i \in 1..Len(s) |-> LowerTok(s[i])]

ExtTokens == {".docx", ".DOCX", ".txt"}

\* Path.suffix of a file name
suffix(name) ==
    IF Len(name) > 1 /\ name[Len(name)] \in ExtTokens THEN <<name[Len(name)]>> ELSE <<>>

\* Path.stem of a file name
stem(name) == SubSeq(name, 1, Len(name) - Len(suffix(name)))

Pad2(n) == (IF n < 10 THEN "0" ELSE "") \o ToString(n)

\* datetime.now().strftime("%Y.%m.%d")
strftime_date(d) == "2026.11." \o Pad2(d)

\* datetime.now().strftime("%H%M%S")
strftime_hms(t) == Pad2(t \div 3600) \o Pad2((t % 3600) \div 60) \o Pad2(t % 60)

MARKER == <<"tou", "zi", "jian", "yi">>

investment_keywords ==
    { <<"mai3", "ru">>, <<"mai4", "chu">>, <<"chi", "you">>, <<"tou", "zi">>, <<"jian", "yi">> }

----------------------------------------------------------------------------
(* Documents, as python-docx delivers them *)

Docs ==
    { [ok |-> TRUE,  paragraphs |-> << <<>>, <<" ", "tou", "zi", "jian", "yi", "mai3">> >>],
      [ok |-> TRUE,  paragraphs |-> << <<"x", "tou", "zi", "jian", "yi">>, <<"tou", "zi", "jian", "yi">> >>],
      [ok |-> TRUE,  paragraphs |-> << <<" ">>, <<>> >>],
      [ok |-> FALSE, paragraphs |-> <<>>] }

\* FirstNonEmpty without the filter of line 35
FirstNonEmpty_unfiltered(paragraphs) ==
    IF paragraphs # <<>> THEN strip(paragraphs[1]) ELSE <<>>

\* lines 35-36: the stripped text of the first paragraph that is non-empty after stripping
FirstNonEmpty(paragraphs) ==
    LET kept == SelectSeq([i \in 1..Len(paragraphs) |-> strip(paragraphs[i])],
                          LAMBDA p : p # <<>>)
    IN IF kept # <<>> THEN kept[1] ELSE <<>>

\* lines 23-39
extract_first_paragraph(d) ==
    IF d.ok THEN FirstNonEmpty(d.paragraphs) ELSE <<>>

\* lines 42-54
is_investment_advice_by_filename(filename) ==
    \E keyword \in investment_keywords : contains(lower(filename), keyword)

----------------------------------------------------------------------------
(* File system *)

IsPrefix(d, e) == Len(d) <= Len(e) /\ SubSeq(e, 1, Len(d)) = d

\* a directory and all its ancestors, as mkdir(parents=True) creates them
Ancestors(d) == { SubSeq(d, 1, n) : n \in 1..Len(d) }

\* line 68
TARGET_BASE == <<"Users", "liuqun", "TradingAgents-CN", "results">>

\* line 82
SourceDir(root) == root \o <<"results">>

\* lines 69-70
TargetDir(d) == TARGET_BASE \o <<strftime_date(d)>>

\* line 120: f"{name_part}_{timestamp}{ext_part}"
Stamped(name, t) == stem(name) \o <<"_" \o strftime_hms(t)>> \o suffix(name)

\* line 87: source_dir.rglob("*.docx"), the paths found
rglob(fs, source_dir) ==
    { p \in DOMAIN fs : IsPrefix(source_dir, p.dir) /\ p.name[Len(p.name)] = ".docx" }

\* the orders in which a directory walk can deliver a set of paths
Orders(S) ==
    { f \in [1..Cardinality(S) -> S] : \A i, j \in 1..Cardinality(S) : f[i] = f[j] => i = j }

\* Candidates without list(...): the loop consumes the directory walk lazily and
\* meets the files that appeared since
Candidates_lazy(snapshot, fs, source_dir) ==
    snapshot \o (CHOOSE f \in Orders(rglob(fs, source_dir) \ { snapshot[i] : i \in DOMAIN snapshot }) : TRUE)

\* line 87: list(...) materialises the walk before the loop starts
Candidates(snapshot, fs, source_dir) == snapshot

\* line 151: file_path.exists() and file_path.suffix.lower() == '.docx'
ValidSingleFile(fs, p) == p \in DOMAIN fs /\ lower(suffix(p.name)) = <<".docx">>

N_plain == <<"b", "ru", ".docx">>
N_buy == <<"A", "mai3", "ru", ".docx">>
N_upper == <<"B", ".DOCX">>
N_txt == <<"b", ".txt">>
N_missing == <<"c", ".docx">>

\* the files that can be present under the source directory at start
SourceChoices(root) ==
    { [dir |-> SourceDir(root), name |-> N_plain],
      [dir |-> SourceDir(root) \o <<"sub">>, name |-> N_plain],
      [dir |-> SourceDir(root), name |-> N_buy],
      [dir |-> SourceDir(root), name |-> N_upper],
      [dir |-> SourceDir(root), name |-> N_txt] }

\* the files an earlier run can have left in the first day's destination
EarlierChoices ==
    { [dir |-> TargetDir(1), name |-> N_plain] }

Roots == { <<"Users", "liuqun", "TradingAgents-CN">>, <<"opt", "app">> }

Original == [by |-> 0, partial |-> FALSE]

----------------------------------------------------------------------------
(* The state before main() runs *)

Init ==
    /\ DOCX_AVAILABLE \in BOOLEAN
    /\ project_root \in Roots
    /\ \E src \in SUBSET SourceChoices(project_root), old \in SUBSET EarlierChoices,
          srcExists \in BOOLEAN :
          /\ Cardinality(src \cup old) <= MaxFiles
          /\ src # {} => srcExists
          /\ files = [p \in src \cup old |-> Original]
          /\ dirs = UNION { Ancestors(p.dir) : p \in src \cup old }
                    \cup (IF srcExists THEN Ancestors(SourceDir(project_root)) ELSE {})
    /\ argv1 \in {NoArg, [dir |-> SourceDir(project_root), name |-> N_missing]} \cup DOMAIN files
    /\ date = 1
    /\ tod = 0
    /\ pc = "main"
    /\ single_file = NoArg
    /\ target_dir = NoDir
    /\ docx_files = <<>>
    /\ idx = 1
    /\ doc = NoDoc
    /\ should_copy = TRUE
    /\ copied_count = 0
    /\ stdout = <<>>
    /\ exit_code = NoExit
    /\ opened = {}
    /\ last = NoLast
    /\ created = {}

Line(msg, arg, n) == [msg |-> msg, arg |-> arg, n |-> n]

fsvars == <<files, dirs, created>>
envvars == <<DOCX_AVAILABLE, project_root, argv1>>
clockvars == <<date, tod>>
loopvars == <<docx_files, idx, doc, should_copy, copied_count, opened, last>>

Put(fs, p, v) == [q \in DOMAIN fs \cup {p} |-> IF q = p THEN v ELSE fs[q]]

\* the list the for loop of line 95 walks
LoopList ==
    IF single_file # NoArg THEN docx_files
    ELSE Candidates(docx_files, files, SourceDir(project_root))

\* TargetFile with the destination directory computed again for every copy
TargetFile_today(fs, name, t) ==
    IF [dir |-> TargetDir(date), name |-> name] \in DOMAIN fs
    THEN [dir |-> TargetDir(date), name |-> Stamped(name, t)]
    ELSE [dir |-> TargetDir(date), name |-> name]

\* lines 113-120: the path the current candidate is copied to
TargetFile(fs, name, t) ==
    IF [dir |-> target_dir, name |-> name] \in DOMAIN fs
    THEN [dir |-> target_dir, name |-> Stamped(name, t)]
    ELSE [dir |-> target_dir, name |-> name]

Entry(res, target, existed) ==
    [res |-> res, target |-> target, existed |-> existed]

----------------------------------------------------------------------------
(* The steps of the script *)

\* lines 147-156: main() looks at the command line
Main ==
    /\ pc = "main"
    /\ IF argv1 # NoArg
       THEN IF ValidSingleFile(files, argv1)
            THEN /\ single_file' = argv1
                 /\ pc' = "mkdir"
                 /\ UNCHANGED <<stdout, exit_code>>
            ELSE /\ stdout' = Append(stdout, Line("invalid path", argv1.name, 0))
                 /\ pc' = "done"
                 /\ exit_code' = 0
                 /\ UNCHANGED single_file
       ELSE /\ single_file' = NoArg
            /\ pc' = "mkdir"
            /\ UNCHANGED <<stdout, exit_code>>
    /\ UNCHANGED <<envvars, fsvars, clockvars, loopvars, target_dir>>

\* lines 68-74: the destination directory is computed and created
Mkdir ==
    /\ pc = "mkdir"
    /\ target_dir' = TargetDir(date)
    /\ dirs' = dirs \cup Ancestors(TargetDir(date))
    /\ created' = Ancestors(TargetDir(date)) \ dirs
    /\ stdout' = Append(stdout, Line("target dir", <<strftime_date(date)>>, 0))
    /\ pc' = "enumerate"
    /\ UNCHANGED <<envvars, files, clockvars, loopvars, single_file, exit_code>>

\* line 73 raises OSError, which line 160 catches
MkdirFails ==
    /\ pc = "mkdir"
    /\ target_dir' = TargetDir(date)
    /\ stdout' = Append(stdout, Line("unexpected error", <<>>, 0))
    /\ pc' = "done"
    /\ exit_code' = 1
    /\ UNCHANGED <<envvars, fsvars, clockvars, loopvars, single_file>>

\* lines 76-93: the candidate list is built
Enumerate ==
    /\ pc = "enumerate"
    /\ IF single_file # NoArg
       THEN /\ docx_files' = <<single_file>>
            /\ stdout' = Append(stdout, Line("single file", single_file.name, 0))
            /\ pc' = "classify"
            /\ UNCHANGED exit_code
       ELSE IF SourceDir(project_root) \notin dirs
            THEN /\ stdout' = Append(stdout, Line("no source dir", <<>>, 0))
                 /\ pc' = "done"
                 /\ exit_code' = 0
                 /\ UNCHANGED docx_files
            ELSE /\ docx_files' \in Orders(rglob(files, SourceDir(project_root)))
                 /\ stdout' = Append(stdout, Line("found", <<>>, Len(docx_files')))
                 /\ pc' = "classify"
                 /\ UNCHANGED exit_code
    /\ copied_count' = 0
    /\ UNCHANGED <<envvars, fsvars, clockvars, single_file, target_dir,
                   idx, doc, should_copy, opened, last>>

\* Classify without the try of lines 33-39: a document that cannot be read
\* raises into the handler of line 129 and the candidate is given up
Classify_unguarded ==
    /\ pc = "classify"
    /\ idx <= Len(LoopList)
    /\ IF DOCX_AVAILABLE
       THEN \E d \in Docs :
              /\ doc' = d
              /\ opened' = opened \cup {idx}
              /\ should_copy' = ~startswith(extract_first_paragraph(d), MARKER)
              /\ IF d.ok
                 THEN /\ pc' = "copy"
                      /\ UNCHANGED <<stdout, idx, last>>
                 ELSE /\ stdout' = Append(stdout, Line("error", LoopList[idx].name, idx))
                      /\ last' = Entry("errored", NoArg, FALSE)
                      /\ idx' = idx + 1
                      /\ pc' = "classify"
       ELSE /\ should_copy' = ~is_investment_advice_by_filename(LoopList[idx].name)
            /\ pc' = "copy"
            /\ UNCHANGED <<doc, opened, stdout, idx, last>>
    /\ UNCHANGED <<envvars, fsvars, clockvars, single_file, target_dir, docx_files,
                   copied_count, exit_code>>

\* lines 97-109: the verdict on the current candidate
Classify ==
    /\ pc = "classify"
    /\ idx <= Len(LoopList)
    /\ IF DOCX_AVAILABLE
       THEN \E d \in Docs :
              /\ doc' = d
              /\ opened' = opened \cup {idx}
              /\ should_copy' = ~startswith(extract_first_paragraph(d), MARKER)
              /\ stdout' = IF d.ok THEN stdout
                           ELSE Append(stdout, Line("cannot read", LoopList[idx].name, idx))
       ELSE /\ should_copy' = ~is_investment_advice_by_filename(LoopList[idx].name)
            /\ UNCHANGED <<doc, opened, stdout>>
    /\ pc' = "copy"
    /\ UNCHANGED <<envvars, fsvars, clockvars, single_file, target_dir, docx_files,
                   idx, copied_count, exit_code, last>>

\* lines 111-130: the current candidate is copied or skipped
Copy ==
    /\ pc = "copy"
    /\ LET name == LoopList[idx].name
           target == TargetFile(files, name, tod)
           existed == target \in DOMAIN files
       IN IF should_copy
          THEN \/ /\ files' = Put(files, target, [by |-> idx, partial |-> FALSE])
                  /\ stdout' = Append(stdout, Line("copied", name, idx))
                  /\ copied_count' = copied_count + 1
                  /\ last' = Entry("copied", target, existed)
               \/ /\ \/ files' = files
                     \/ files' = Put(files, target, [by |-> idx, partial |-> TRUE])
                  /\ stdout' = Append(stdout, Line("error", name, idx))
                  /\ last' = Entry("errored", target, existed)
                  /\ UNCHANGED copied_count
          ELSE /\ stdout' = Append(stdout, Line("skipped", name, idx))
               /\ last' = Entry("skipped", NoArg, FALSE)
               /\ UNCHANGED <<files, copied_count>>
    /\ idx' = idx + 1
    /\ pc' = "classify"
    /\ UNCHANGED <<envvars, dirs, created, clockvars, single_file, target_dir, docx_files,
                   doc, should_copy, exit_code, opened>>

\* Finish printing the number of candidates found instead of the number copied
Finish_printsFound ==
    /\ pc = "classify"
    /\ idx > Len(LoopList)
    /\ stdout' = Append(stdout, Line("finished", <<>>, Len(LoopList)))
    /\ pc' = "done"
    /\ exit_code' = 0
    /\ UNCHANGED <<envvars, fsvars, clockvars, loopvars, single_file, target_dir>>

\* line 132, then main() returns
Finish ==
    /\ pc = "classify"
    /\ idx > Len(LoopList)
    /\ stdout' = Append(stdout, Line("finished", <<>>, copied_count))
    /\ pc' = "done"
    /\ exit_code' = 0
    /\ UNCHANGED <<envvars, fsvars, clockvars, loopvars, single_file, target_dir>>

\* lines 157-159: KeyboardInterrupt raised between two file system operations
Interrupt ==
    /\ pc \in {"main", "mkdir", "enumerate", "classify", "copy"}
    /\ stdout' = Append(stdout, Line("interrupted", <<>>, 0))
    /\ pc' = "done"
    /\ exit_code' = 1
    /\ UNCHANGED <<envvars, fsvars, clockvars, loopvars, single_file, target_dir>>

\* lines 157-159: KeyboardInterrupt raised inside shutil.copy2 of line 123
InterruptCopy ==
    /\ pc = "copy"
    /\ should_copy
    /\ files' = Put(files, TargetFile(files, LoopList[idx].name, tod),
                    [by |-> idx, partial |-> TRUE])
    /\ stdout' = Append(stdout, Line("interrupted", <<>>, 0))
    /\ pc' = "done"
    /\ exit_code' = 1
    /\ UNCHANGED <<envvars, dirs, created, clockvars, loopvars, single_file, target_dir>>

\* the wall clock advances by one second; the script reads it at lines 69 and 117
\* only, so the seconds that pass are taken just before those reads
Tick ==
    /\ pc = "mkdir" \/ (pc = "copy" /\ should_copy)
    /\ (date - 1) * DayLen + tod < MaxTicks
    /\ tod' = (tod + 1) % DayLen
    /\ date' = IF tod = DayLen - 1 THEN date + 1 ELSE date
    /\ UNCHANGED <<envvars, fsvars, loopvars, pc, single_file, target_dir, stdout, exit_code>>

Next ==
    \/ Main
    \/ Mkdir
    \/ MkdirFails
    \/ Enumerate
    \/ Classify
    \/ Copy
    \/ Finish
    \/ Interrupt
    \/ InterruptCopy
    \/ Tick

Spec == Init /\ [][Next]_vars

TypeOK ==
    /\ pc \in {"main", "mkdir", "enumerate", "classify", "copy", "done"}
    /\ idx \in 1..(Len(LoopList) + 1)
    /\ exit_code \in {NoExit, 0, 1}

----------------------------------------------------------------------------
(* Vocabulary of the properties *)

Range(f) == { f[i] : i \in DOMAIN f }

\* the lines of stdout that report how a candidate ended
ResultLines == SelectSeq(stdout, LAMBDA l : l.msg \in {"copied", "error", "skipped"})

Count(msg) == Cardinality({ i \in DOMAIN stdout : stdout[i].msg = msg })

LastLine == IF stdout = <<>> THEN Line("", <<>>, 0) ELSE stdout[Len(stdout)]

\* the candidate with index idx - 1 has just gone through the loop body;
\* should_copy, doc and last still describe it
JustProcessed == pc = "classify" /\ idx > 1

\* the run reached line 132
Completed == pc = "done" /\ LastLine.msg = "finished"

Blank(p) == \A k \in DOMAIN p : p[k] = " "

\* the text of paragraph p, after its leading white space, begins with the marker phrase
BeginsWithMarker(p) ==
    \E k \in DOMAIN p :
        /\ \A j \in 1..(k - 1) : p[j] = " "
        /\ k + 3 <= Len(p)
        /\ <<p[k], p[k + 1], p[k + 2], p[k + 3]>> = <<"tou", "zi", "jian", "yi">>

\* the first non-empty paragraph of document d starts with the marker phrase
MarkerFirst(d) ==
    \E i \in DOMAIN d.paragraphs :
        /\ \A j \in 1..(i - 1) : Blank(d.paragraphs[j])
        /\ ~Blank(d.paragraphs[i])
        /\ BeginsWithMarker(d.paragraphs[i])

\* the complete copies of candidate i that are on disk in the destination directory
CopiesOf(i) ==
    { p \in DOMAIN files : p.dir = target_dir /\ files[p] = [by |-> i, partial |-> FALSE] }

\* a copy step that wrote the whole file over a path that was not there, or left it alone
CopyPlaced ==
    /\ last.res = "copied"
    /\ last.target \in CopiesOf(idx - 1)

----------------------------------------------------------------------------
(* C1 *)

\* C1 (as stated): with the content strategy, a candidate whose first
\* non-empty paragraph starts with the marker phrase is classified as
\* investment advice and no copy of it is in the destination directory; any
\* other readable candidate is classified as not investment advice and a copy
\* of it is in the destination directory.
C1_AlwaysPlaced ==
    (JustProcessed /\ DOCX_AVAILABLE /\ doc.ok) =>
        IF MarkerFirst(doc)
        THEN ~should_copy /\ last.res = "skipped" /\ CopiesOf(idx - 1) = {}
        ELSE should_copy /\ CopyPlaced

\* C1 (amended): as C1, except that the copy of a candidate without the marker
\* is attempted and is in the destination directory unless the copy fails with
\* an I/O error, in which case the candidate is reported as an error and no
\* complete copy of it is there.
C1_PlacedUnlessCopyFails ==
    (JustProcessed /\ DOCX_AVAILABLE /\ doc.ok) =>
        IF MarkerFirst(doc)
        THEN ~should_copy /\ last.res = "skipped" /\ CopiesOf(idx - 1) = {}
        ELSE /\ should_copy
             /\ \/ CopyPlaced
                \/ /\ last.res = "errored"
                   /\ LastLine = Line("error", LoopList[idx - 1].name, idx - 1)
                   /\ CopiesOf(idx - 1) = {}

\* a readable document whose first paragraph is empty and whose first non-empty
\* paragraph lacks the marker phrase has been copied
C1_Witness ==
    /\ JustProcessed /\ DOCX_AVAILABLE /\ doc.ok
    /\ ~MarkerFirst(doc)
    /\ \E i \in DOMAIN doc.paragraphs : ~Blank(doc.paragraphs[i])
    /\ CopyPlaced

----------------------------------------------------------------------------
(* C2 *)

\* C2 (as stated): a successful copy never overwrites a file that already
\* exists in the destination directory; it creates a new file, named as the
\* candidate or, on a collision, <stem>_<HHMMSS><ext>.
C2_NeverOverwrites ==
    (JustProcessed /\ last.res = "copied") =>
        /\ ~last.existed
        /\ last.target.dir = target_dir
        /\ last.target.name \in
             { LoopList[idx - 1].name } \cup
             { stem(LoopList[idx - 1].name) \o <<"_" \o strftime_hms(t)>>
                 \o suffix(LoopList[idx - 1].name) : t \in 0..(DayLen - 1) }

----------------------------------------------------------------------------
(* C3 *)

\* the run rejected its input: the explicit path is missing or is not a .docx
\* file, or the source directory does not exist
Rejected == pc = "done" /\ LastLine.msg \in {"invalid path", "no source dir"}

\* C3 (as stated): a run on invalid input ends with a non-zero exit code and
\* without side effects: it creates no directory and copies no file.
C3_RejectsWithoutSideEffects ==
    Rejected =>
        /\ exit_code # 0
        /\ created = {}
        /\ \A p \in DOMAIN files : files[p] = Original

----------------------------------------------------------------------------
(* C4 *)

\* this step is the loop's handler of line 130 reporting an I/O error
ErrorStep == pc = "copy" /\ pc' = "classify" /\ last'.res = "errored"

\* the complete copies this run made are the same before and after the step
CopiesStay ==
    \A p \in DOMAIN files :
        (files[p].by > 0 /\ ~files[p].partial) => (p \in DOMAIN files' /\ files'[p] = files[p])

\* every candidate has exactly one result line, in enumeration order
EachOnce ==
    /\ Len(ResultLines) = Len(LoopList)
    /\ \A i \in DOMAIN ResultLines : ResultLines[i].n = i

\* C4 (as stated): a candidate whose copy fails with an I/O error does not end
\* the run, leaves the copies already made on disk and is followed by the next
\* candidate; a run that reaches its end has processed every candidate exactly
\* once, each with one outcome among skipped, copied and errored.
C4_ErrorsIsolated ==
    /\ [][ErrorStep => (idx' = idx + 1 /\ exit_code' = NoExit /\ CopiesStay)]_vars
    /\ [](Completed => EachOnce)

----------------------------------------------------------------------------
(* C5 *)

\* C5: with the content strategy, a candidate whose document cannot be opened
\* or parsed is reported, is given the verdict "not investment advice", gets a
\* copy attempt into the destination directory and is never skipped, and the
\* run goes on.
C5_ReadFailureIsCopied ==
    (DOCX_AVAILABLE /\ doc # NoDoc /\ ~doc.ok) =>
        /\ pc = "copy" =>
             /\ should_copy
             /\ LastLine = Line("cannot read", LoopList[idx].name, idx)
        /\ JustProcessed =>
             /\ last.res \in {"copied", "errored"}
             /\ last.target.dir = target_dir
             /\ \E i \in DOMAIN stdout :
                    stdout[i] = Line("cannot read", LoopList[idx - 1].name, idx - 1)
             /\ exit_code = NoExit

\* an unreadable document has been copied
C5_Witness ==
    /\ JustProcessed /\ DOCX_AVAILABLE /\ doc # NoDoc /\ ~doc.ok
    /\ CopyPlaced

----------------------------------------------------------------------------
(* C6 *)

Lowercase(c) == IF c = "A" THEN "a" ELSE IF c = "B" THEN "b" ELSE IF c = ".DOCX" THEN ".docx" ELSE c

\* the lowercased name holds one of the five keywords, each two characters long
NameHasKeyword(name) ==
    \E i \in 1..(Len(name) - 1) :
        <<Lowercase(name[i]), Lowercase(name[i + 1])>> \in
            { <<"mai3", "ru">>, <<"mai4", "chu">>, <<"chi", "you">>,
              <<"tou", "zi">>, <<"jian", "yi">> }

\* C6: the strategy never changes during a run; with the content strategy
\* every classified candidate is opened, and with the file name strategy no
\* candidate is ever opened and a candidate is classified as investment advice,
\* and skipped, exactly when its lowercased file name holds a keyword.
C6_FilenameStrategy ==
    /\ [][DOCX_AVAILABLE' = DOCX_AVAILABLE]_vars
    /\ [](DOCX_AVAILABLE =>
            /\ pc = "copy" => opened = 1..idx
            /\ pc = "classify" => opened = 1..(idx - 1))
    /\ [](~DOCX_AVAILABLE =>
            /\ opened = {}
            /\ doc = NoDoc
            /\ pc = "copy" => (should_copy <=> ~NameHasKeyword(LoopList[idx].name))
            /\ JustProcessed =>
                 (last.res = "skipped" <=> NameHasKeyword(LoopList[idx - 1].name)))

\* with the file name strategy a candidate whose name holds a keyword after an
\* upper-case letter has been skipped
C6_Witness ==
    /\ ~DOCX_AVAILABLE
    /\ JustProcessed
    /\ LoopList[idx - 1].name = N_buy
    /\ last.res = "skipped"

----------------------------------------------------------------------------
(* C7 *)

----------------------------------------------------------------------------
(* C8 *)

\* this step is the handler of lines 157-159
InterruptStep == pc # "done" /\ pc' = "done" /\ LastLine'.msg = "interrupted"

\* C8 (as stated): an interrupt ends the run with exit code 1 after a message,
\* no candidate is processed afterwards, and every copy completed before the
\* interrupt stays on disk unchanged.
C8_InterruptKeepsCopies ==
    /\ [][InterruptStep => (exit_code' = 1 /\ idx' = idx /\ CopiesStay)]_vars
    /\ [][pc = "done" => UNCHANGED vars]_vars

----------------------------------------------------------------------------
(* C9 *)

\* C9 (as stated): a copy lands in the directory named by the date of the
\* moment it is made, so the copies made after the date changes land in the
\* directory of the new date.  (No second passes between a copy and the state
\* JustProcessed, so date is there the day of the copy.)
C9_FollowsTheDate ==
    (JustProcessed /\ last.res = "copied") => last.target.dir = TargetDir(date)

\* the day printed by line 74, when the destination directory was computed
PrintedDay ==
    { stdout[i].arg : i \in { j \in DOMAIN stdout : stdout[j].msg = "target dir" } }

\* C9 (amended): all copies made in a single run land in exactly one
\* destination directory, named by the date (YYYY.MM.DD) of the moment the run
\* computed it at its start, also when the local date changes during the run.
C9_OneDirectory ==
    /\ Cardinality(PrintedDay) <= 1
    /\ \A p \in DOMAIN files :
           files[p].by > 0 => \E d \in PrintedDay : p.dir = TARGET_BASE \o d
    /\ (JustProcessed /\ last.res = "copied") =>
           \E d \in PrintedDay : last.target.dir = TARGET_BASE \o d

\* a copy has been made on a later day than the one the destination is named by
C9_Witness ==
    /\ JustProcessed
    /\ last.res = "copied"
    /\ target_dir # TargetDir(date)
    /\ last.target.dir = target_dir

----------------------------------------------------------------------------
(* C10 *)

\* the control thread always takes its next step; the clock and the interrupt
\* are the environment's
FairSpec == Spec /\ WF_vars(Main \/ Mkdir \/ Enumerate \/ Classify \/ Copy \/ Finish)

\* C10: the candidate list does not change once it is built; a path the run
\* creates is not a candidate, also when the destination directory lies under
\* the source directory; the copy attempts are at most as many as the .docx
\* files found; and the run ends.
C10_CandidatesFixed ==
    /\ [][(pc \in {"classify", "copy"}) => (LoopList' = LoopList)]_vars
    /\ [][(pc = "enumerate" /\ pc' = "classify") =>
            Len(LoopList') <= Cardinality({ p \in DOMAIN files :
                                               Lowercase(p.name[Len(p.name)]) = ".docx" })]_vars
    /\ []((last.res \in {"copied", "errored"} /\ ~last.existed /\ pc \in {"classify", "copy", "done"})
            => last.target \notin Range(LoopList))
    /\ [](pc \in {"classify", "copy", "done"} =>
            /\ Len(ResultLines) <= Len(docx_files)
            /\ Count("copied") + Count("error") <= Len(docx_files))
    /\ <>(pc = "done")

\* a run whose destination lies under its source directory has copied a file and ended
C10_Witness ==
    /\ Completed
    /\ single_file = NoArg
    /\ IsPrefix(SourceDir(project_root), target_dir)
    /\ copied_count > 0

====
